---- MODULE Spec2Model ----
(***************************************************************************)
(* Model of computor.py: a polynomial equation given as text is reduced to *)
(* a map power -> coefficient (get_reduced_form_coeffs, parse_term),       *)
(* printed in canonical form (format_reduced_form), its degree computed    *)
(* and the equation solved (solve_equation), all driven by main.           *)
(*                                                                         *)
(* Text is a sequence of one-character strings.  A float is an exact       *)
(* fixed-point number: the integer n stands for n * 1e-6, so the program's *)
(* tolerance 1e-6 is the integer 1.  A product of two such numbers is kept *)
(* as a pair [q, r] standing for (q * 10^6 + r) * 1e-12, 0 <= r < 10^6, so *)
(* that no intermediate value leaves the range of the model checker's      *)
(* integers.                                                               *)
(***************************************************************************)
EXTENDS Integers, Sequences, FiniteSets, TLC

(* ------------------------------------------------------------------ *)
(* Bounds of the model                                                *)
(* ------------------------------------------------------------------ *)
\* Largest number of items (terms and '=' signs) of an equation.
MaxItems == 4

(* ------------------------------------------------------------------ *)
(* Numbers                                                            *)
(* ------------------------------------------------------------------ *)
\* Units per 1.0: the tolerance 1e-6 of the program is one unit.
Micro == 1000000

\* The tolerance 1e-6 in units.
EPS == 1

Abs(n) == IF n < 0 THEN -n ELSE n

\* A number n is Hi(n) * 1000 + Lo(n), 0 <= Lo(n) < 1000.
Hi(n) == n \div 1000

Lo(n) == n % 1000

\* n * m, in units of 1e-12, as [q, r] with n * m = q * Micro + r.
Mul(n, m) ==
    LET mid  == Hi(n) * Lo(m) + Lo(n) * Hi(m)
        low  == (mid % 1000) * 1000 + Lo(n) * Lo(m)
    IN  [q |-> Hi(n) * Hi(m) + (mid \div 1000) + (low \div Micro),
         r |-> low % Micro]

\* x - 4 * y on such pairs.
Sub4(x, y) ==
    LET low == x.r - 4 * y.r
    IN  [q |-> x.q - 4 * y.q + (low \div Micro), r |-> low % Micro]

\* d > 1e-6, d being a pair in units of 1e-12.
GtEps(d) == d.q > 1 \/ (d.q = 1 /\ d.r > 0)

\* d < -1e-6
LtNegEps(d) == d.q < -1

\* d >= 1e-6 and d <= -1e-6
GeEps(d) == d.q >= 1

LeNegEps(d) == d.q < -1 \/ (d.q = -1 /\ d.r = 0)

\* abs(d) < 1e-6
AbsLtEps(d) == ~GeEps(d) /\ ~LeNegEps(d)

(* ------------------------------------------------------------------ *)
(* Text                                                               *)
(* ------------------------------------------------------------------ *)
Digits == <<"0", "1", "2", "3", "4", "5", "6", "7", "8", "9">>

IsDigit(c) == \E d \in 1..10 : Digits[d] = c

DigitVal(c) == (CHOOSE d \in 1..10 : Digits[d] = c) - 1

\* str.replace(c, '') for every character c of the set cs
Remove(s, cs) == SelectSeq(s, LAMBDA c : c \notin cs)

\* str.startswith
startswith(s, pre) == Len(s) >= Len(pre) /\ SubSeq(s, 1, Len(pre)) = pre

\* s[i:] with i counted from 0, as Python does
From(s, i) == SubSeq(s, i + 1, Len(s))

\* str.find from position i (from 1): the first position of sep, or 0
RECURSIVE Find(_, _, _)
Find(s, sep, i) ==
    IF i + Len(sep) - 1 > Len(s) THEN 0
    ELSE IF SubSeq(s, i, i + Len(sep) - 1) = sep THEN i
    ELSE Find(s, sep, i + 1)

\* str.split(sep)
RECURSIVE split(_, _)
split(s, sep) ==
    LET j == Find(s, sep, 1)
    IN  IF j = 0 THEN <<s>>
        ELSE <<SubSeq(s, 1, j - 1)>> \o split(SubSeq(s, j + Len(sep), Len(s)), sep)

\* the value of a string of digits
RECURSIVE DecVal(_)
DecVal(s) ==
    IF s = <<>> THEN 0
    ELSE 10 * DecVal(SubSeq(s, 1, Len(s) - 1)) + DigitVal(s[Len(s)])

AllDigits(s) == \A k \in 1..Len(s) : IsDigit(s[k])

\* int(s): [ok, val]; ValueError unless s is one or more digits
int(s) ==
    IF s # <<>> /\ AllDigits(s) THEN [ok |-> TRUE, val |-> DecVal(s)]
    ELSE [ok |-> FALSE, val |-> 0]

\* the first six digits of a fraction, in units
RECURSIVE FracVal(_, _)
FracVal(s, w) ==
    IF s = <<>> \/ w = 0 THEN 0
    ELSE DigitVal(s[1]) * w + FracVal(Tail(s), w \div 10)

\* float(s): [ok, val]; s is digits, optionally a point and digits, with at
\* least one digit; anything else is a ValueError
float(s) ==
    LET j  == Find(s, <<".">>, 1)
        ip == IF j = 0 THEN s ELSE SubSeq(s, 1, j - 1)
        fp == IF j = 0 THEN <<>> ELSE SubSeq(s, j + 1, Len(s))
    IN  IF AllDigits(ip) /\ AllDigits(fp) /\ Len(ip) + Len(fp) > 0
        THEN [ok |-> TRUE, val |-> DecVal(ip) * Micro + FracVal(fp, Micro \div 10)]
        ELSE [ok |-> FALSE, val |-> 0]

(* ------------------------------------------------------------------ *)
(* get_reduced_form_coeffs and parse_term                             *)
(* ------------------------------------------------------------------ *)
\* The end of the match of  [+-]?\d*\.?\d*\*?X\^?\d+?  that starts at
\* position i of s, or 0 when there is none.  The character classes of the
\* pattern are disjoint, so the match is found by one scan; the final \d+?
\* is lazy and nothing follows it, so it takes exactly one digit.
SkipOne(s, i, cs) == IF i <= Len(s) /\ s[i] \in cs THEN i + 1 ELSE i

RECURSIVE SkipDigits(_, _)
SkipDigits(s, i) ==
    IF i <= Len(s) /\ IsDigit(s[i]) THEN SkipDigits(s, i + 1) ELSE i

PowerDigits(s, i) == IF i <= Len(s) /\ IsDigit(s[i]) THEN i ELSE 0

MatchEnd(s, i) ==
    LET a == SkipOne(s, i, {"+", "-"})
        b == SkipDigits(s, a)
        c == SkipOne(s, b, {"."})
        d == SkipDigits(s, c)
        e == SkipOne(s, d, {"*"})
    IN  IF e <= Len(s) /\ s[e] = "X"
        THEN PowerDigits(s, SkipOne(s, e + 1, {"^"}))
        ELSE 0

\* re.findall(pattern, s), scanning from position i
RECURSIVE findall(_, _)
findall(s, i) ==
    IF i > Len(s) THEN <<>>
    ELSE LET e == MatchEnd(s, i)
         IN  IF e = 0 THEN findall(s, i + 1)
             ELSE <<SubSeq(s, i, e)>> \o findall(s, e + 1)

\* parse_term(term_str): [ok, coeff, power]; ok is FALSE when float() or
\* int() raises
parse_term(term_str) ==
    LET t    == Remove(term_str, {" ", "+", "-"})
        fail == [ok |-> FALSE, coeff |-> 0, power |-> 0]
    IN  IF startswith(t, <<"X", "^">>)
        THEN LET p == int(From(t, 2))
             IN  IF p.ok THEN [ok |-> TRUE, coeff |-> Micro, power |-> p.val]
                 ELSE fail
        ELSE IF startswith(t, <<"-", "X", "^">>)
        THEN LET p == int(From(t, 3))
             IN  IF p.ok THEN [ok |-> TRUE, coeff |-> -Micro, power |-> p.val]
                 ELSE fail
        ELSE LET parts == split(t, <<"*", "X", "^">>)
                 c     == float(parts[1])
                 p     == IF Len(parts) > 1 THEN int(parts[2])
                          ELSE [ok |-> FALSE, val |-> 0]
             IN  IF c.ok /\ p.ok
                 THEN [ok |-> TRUE, coeff |-> c.val, power |-> p.val]
                 ELSE fail

\* term_sign with the leading '-' ignored
term_sign_unsigned(term) == 1

\* sign = -1.0 if term.startswith('-') else 1.0
term_sign(term) == IF startswith(term, <<"-">>) THEN -1 ELSE 1

\* dict.get(k, 0.0)
Get(f, k) == IF k \in DOMAIN f THEN f[k] ELSE 0

\* f[k] = v
Put(f, k, v) == [x \in DOMAIN f \cup {k} |-> IF x = k THEN v ELSE f[x]]

\* Accumulate with a term that raises skipped instead of aborting
RECURSIVE AccumulateSkipping(_, _, _)
AccumulateSkipping(acc, terms, side) ==
    IF terms = <<>> THEN acc
    ELSE LET t == parse_term(terms[1])
         IN  IF ~t.ok THEN AccumulateSkipping(acc, Tail(terms), side)
             ELSE AccumulateSkipping(
                    [ok |-> TRUE,
                     coeffs |-> Put(acc.coeffs, t.power,
                                    Get(acc.coeffs, t.power)
                                      + side * term_sign(terms[1]) * t.coeff)],
                    Tail(terms), side)

\* One of the two loops over the terms of a side: side is 1 for the left
\* side, -1 for the right side.  [ok, coeffs]; ok is FALSE when a term raises.
RECURSIVE Accumulate(_, _, _)
Accumulate(acc, terms, side) ==
    IF terms = <<>> \/ ~acc.ok THEN acc
    ELSE LET t == parse_term(terms[1])
         IN  IF ~t.ok THEN [ok |-> FALSE, coeffs |-> acc.coeffs]
             ELSE Accumulate(
                    [ok |-> TRUE,
                     coeffs |-> Put(acc.coeffs, t.power,
                                    Get(acc.coeffs, t.power)
                                      + side * term_sign(terms[1]) * t.coeff)],
                    Tail(terms), side)

\* get_reduced_form_coeffs(equation): [ok, coeffs]; ok is FALSE when
\* sides[1] does not exist (IndexError) or a term raises (ValueError)
get_reduced_form_coeffs(equation) ==
    LET sides == split(equation, <<"=">>)
    IN  IF Len(sides) < 2 THEN [ok |-> FALSE, coeffs |-> <<>>]
        ELSE LET left_side   == Remove(sides[1], {" "})
                 right_side  == Remove(sides[2], {" "})
                 left_terms  == findall(left_side, 1)
                 right_terms == findall(right_side, 1)
                 left        == Accumulate([ok |-> TRUE, coeffs |-> <<>>],
                                           left_terms, 1)
                 both        == Accumulate(left, right_terms, -1)
             IN  IF both.ok THEN both ELSE [ok |-> FALSE, coeffs |-> <<>>]

(* ------------------------------------------------------------------ *)
(* format_reduced_form                                                *)
(* ------------------------------------------------------------------ *)
\* str(n) for n >= 0
RECURSIVE IntStr(_)
IntStr(n) ==
    IF n < 10 THEN <<Digits[n + 1]>>
    ELSE IntStr(n \div 10) \o <<Digits[(n % 10) + 1]>>

\* Fmt2 with the sign of a negative coefficient lost
Fmt2Unsigned(coeff, tie_up) ==
    LET a    == Abs(coeff)
        rest == a % 10000
        h    == (a \div 10000)
                  + (IF rest > 5000 \/ (rest = 5000 /\ tie_up) THEN 1 ELSE 0)
    IN  IntStr(h \div 100) \o <<".">>
          \o <<Digits[((h \div 10) % 10) + 1], Digits[(h % 10) + 1]>>

\* f'{coeff:.2f}': coeff rounded to hundredths.  A value exactly half way
\* between two hundredths goes up or down as its binary representation lies
\* above or below it: tie_up says which.
Fmt2(coeff, tie_up) ==
    LET a    == Abs(coeff)
        rest == a % 10000
        h    == (a \div 10000)
                  + (IF rest > 5000 \/ (rest = 5000 /\ tie_up) THEN 1 ELSE 0)
    IN  (IF coeff < 0 THEN <<"-">> ELSE <<>>)
          \o IntStr(h \div 100) \o <<".">>
          \o <<Digits[((h \div 10) % 10) + 1], Digits[(h % 10) + 1]>>

\* sorted(keys)
RECURSIVE Sorted(_)
Sorted(S) ==
    IF S = {} THEN <<>>
    ELSE LET m == CHOOSE x \in S : \A y \in S : x <= y
         IN  <<m>> \o Sorted(S \ {m})

\* ' '.join(parts)
RECURSIVE Join(_)
Join(parts) ==
    IF Len(parts) = 1 THEN parts[1]
    ELSE parts[1] \o <<" ">> \o Join(Tail(parts))

\* the loop of format_reduced_form over the sorted items
RECURSIVE FormatParts(_, _, _, _)
FormatParts(coeffs, keys, parts, tie_up) ==
    IF keys = <<>> THEN parts
    ELSE LET power == keys[1]
             coeff == coeffs[power]
             sign  == IF coeff >= 0 /\ Len(parts) > 0 THEN <<"+">> ELSE <<>>
             part  == sign \o <<" ">> \o Fmt2(coeff, tie_up)
                        \o <<" ", "*", " ", "X", "^">> \o IntStr(power)
         IN  FormatParts(coeffs, Tail(keys),
                         IF Abs(coeff) > EPS THEN Append(parts, part) ELSE parts,
                         tie_up)

ZeroForm == <<"0", " ", "*", " ", "X", "^", "0", " ", "=", " ", "0">>

format_reduced_form(coeffs, tie_up) ==
    LET parts == FormatParts(coeffs, Sorted(DOMAIN coeffs), <<>>, tie_up)
    IN  IF parts = <<>> THEN ZeroForm
        ELSE Join(parts) \o <<" ", "=", " ", "0">>

(* ------------------------------------------------------------------ *)
(* Output lines                                                       *)
(* ------------------------------------------------------------------ *)
\* A printed line: what it says, and the text or the number it carries.
\* The value of a printed root is not modelled.
Line(tag) == [tag |-> tag, text |-> <<>>, num |-> 0]

ReducedLine(text) == [tag |-> "Reduced form:", text |-> text, num |-> 0]

DegreeLine(n) == [tag |-> "Polynomial degree:", text |-> <<>>, num |-> n]

CantSolveLine == Line("The polynomial degree is strictly greater than 2, I can't solve.")

PositiveLine == Line("Discriminant is strictly positive, the two solutions are:")

ZeroLine == Line("Discriminant is zero, the solution is:")

NegativeLine == Line("Discriminant is strictly negative, the two complex solutions are:")

LinearLine == Line("The solution is:")

AnyLine == Line("Any real number is a solution.")

NoneLine == Line("No solution.")

RealRoot == Line("<real>")

ComplexRoot == Line("<real> + <imag>i")

ErrorLine == Line("Error:")

UsageLine == Line("Usage:")

(* ------------------------------------------------------------------ *)
(* solve_equation                                                     *)
(* ------------------------------------------------------------------ *)
\* discriminant = b**2 - 4*a*c
Discriminant(coeffs) ==
    Sub4(Mul(Get(coeffs, 1), Get(coeffs, 1)), Mul(Get(coeffs, 2), Get(coeffs, 0)))

\* The lines solve_equation prints, and whether it raises: a division by
\* 2*a or by a raises ZeroDivisionError when the divisor is 0.0, after the
\* heading was printed.
solve_equation(coeffs, degree) ==
    IF degree = 2
    THEN LET a    == Get(coeffs, 2)
             d    == Discriminant(coeffs)
             head == IF GtEps(d) THEN PositiveLine
                     ELSE IF AbsLtEps(d) THEN ZeroLine
                     ELSE NegativeLine
             root == IF head = NegativeLine THEN ComplexRoot ELSE RealRoot
         IN  IF a = 0 THEN [lines |-> <<head>>, raised |-> TRUE]
             ELSE IF head = ZeroLine
             THEN [lines |-> <<head, root>>, raised |-> FALSE]
             ELSE [lines |-> <<head, root, root>>, raised |-> FALSE]
    ELSE IF degree = 1
    THEN LET a == Get(coeffs, 1)
             b == Get(coeffs, 0)
         IN  IF Abs(a) < EPS
             THEN [lines |-> <<IF Abs(b) < EPS THEN AnyLine ELSE NoneLine>>,
                   raised |-> FALSE]
             ELSE [lines |-> <<LinearLine, RealRoot>>, raised |-> FALSE]
    ELSE IF degree = 0
    THEN [lines |-> <<IF Abs(Get(coeffs, 0)) < EPS THEN AnyLine ELSE NoneLine>>,
          raised |-> FALSE]
    ELSE [lines |-> <<>>, raised |-> FALSE]

(* ------------------------------------------------------------------ *)
(* main                                                               *)
(* ------------------------------------------------------------------ *)
\* the loop of main over sorted(keys, reverse=True): the first power whose
\* coefficient is not negligible, 0 when there is none
RECURSIVE DegreeScan(_, _)
DegreeScan(coeffs, keys) ==
    IF keys = <<>> THEN 0
    ELSE LET power == keys[Len(keys)]
         IN  IF Abs(coeffs[power]) > EPS THEN power
             ELSE DegreeScan(coeffs, SubSeq(keys, 1, Len(keys) - 1))

\* the degree taken as the highest key, negligible or not
compute_degree_highest_key(coeffs) ==
    IF DOMAIN coeffs = {} THEN 0
    ELSE CHOOSE p \in DOMAIN coeffs : \A q \in DOMAIN coeffs : q <= p

compute_degree(coeffs) == DegreeScan(coeffs, Sorted(DOMAIN coeffs))

\* the degree test off by one
too_high_above_3(d) == d > 3

\* if degree > 2
too_high(d) == d > 2

(* ------------------------------------------------------------------ *)
(* Inputs                                                             *)
(* ------------------------------------------------------------------ *)
\* What an equation is written from.  A "term" is  X^<digit>  or
\* <number>*X^<digit>  with an optional sign; sgn * mag is the number it is
\* written with and pw its power.  "multi" is a term with a power of two
\* digits, "alpha" a term with a power that is no number, "nostar" a term
\* without '*', and "eq" the '=' sign.
Item(kind, txt, sgn, mag, pw) ==
    [kind |-> kind, txt |-> txt, sgn |-> sgn, mag |-> mag, pw |-> pw]

EQ == Item("eq", <<"=">>, 0, 0, 0)

Terms ==
    { Item("term", <<"-", "X", "^", "2">>, -1, Micro, 2),
      Item("term", <<"+", "0", ".", "0", "0", "1", "*", "X", "^", "1">>, 1, 1000, 1),
      Item("term", <<"0", ".", "0", "0", "0", "0", "0", "1", "*", "X", "^", "0">>, 1, 1, 0),
      Item("term", <<"-", " ", "3", " ", "*", " ", "X", "^", "3">>, -1, 3 * Micro, 3),
      Item("term", <<"X", "^", "3">>, 1, Micro, 3) }

Malformed ==
    { Item("multi", <<"3", "*", "X", "^", "2", "0">>, 1, 3 * Micro, 20),
      Item("alpha", <<"X", "^", "a">>, 1, Micro, 0),
      Item("nostar", <<"3", "X", "^", "2">>, 1, 3 * Micro, 2) }

Items == Terms \cup Malformed \cup {EQ}

Inputs == UNION { [1..n -> Items] : n \in 0..MaxItems }

\* the text of a sequence of items
RECURSIVE Text(_)
Text(its) == IF its = <<>> THEN <<>> ELSE its[1].txt \o Text(Tail(its))

VARIABLES
    argc,            \* len(sys.argv)
    input,           \* the items sys.argv[1] was written from
    equation,        \* sys.argv[1]
    pc,              \* where main is
    reduced_coeffs,  \* the map get_reduced_form_coeffs returned
    degree,          \* the degree main computed
    out,             \* the lines printed so far
    raised,          \* an exception was raised inside the try
    solver_calls,    \* how many times solve_equation was called
    exit_status      \* the status the process ended with, -1 while it runs

vars == <<argc, input, equation, pc, reduced_coeffs, degree, out, raised,
          solver_calls, exit_status>>

Init ==
    /\ argc \in 1..3
    /\ input \in Inputs
    /\ argc # 2 => input = <<>>
    /\ equation = Text(input)
    /\ pc = "start"
    /\ reduced_coeffs = <<>>
    /\ degree = 0
    /\ out = <<>>
    /\ raised = FALSE
    /\ solver_calls = 0
    /\ exit_status = -1

\* if len(sys.argv) != 2: print the usage and sys.exit(1)
Usage ==
    /\ pc = "start"
    /\ argc # 2
    /\ out' = Append(out, UsageLine)
    /\ exit_status' = 1
    /\ pc' = "exited"
    /\ UNCHANGED <<argc, input, equation, reduced_coeffs, degree, raised, solver_calls>>

\* reduced_coeffs = get_reduced_form_coeffs(equation)
Reduce ==
    /\ pc = "start"
    /\ argc = 2
    /\ LET r == get_reduced_form_coeffs(equation)
       IN  /\ reduced_coeffs' = r.coeffs
           /\ raised' = ~r.ok
           /\ pc' = IF r.ok THEN "print_form" ELSE "except"
    /\ UNCHANGED <<argc, input, equation, degree, out, solver_calls, exit_status>>

\* print(f"Reduced form: {format_reduced_form(reduced_coeffs)}")
PrintReducedForm ==
    /\ pc = "print_form"
    /\ \E tie_up \in BOOLEAN :
         out' = Append(out, ReducedLine(format_reduced_form(reduced_coeffs, tie_up)))
    /\ pc' = "degree"
    /\ UNCHANGED <<argc, input, equation, reduced_coeffs, degree, raised,
                   solver_calls, exit_status>>

\* the degree loop and print(f"Polynomial degree: {degree}")
PrintDegree ==
    /\ pc = "degree"
    /\ degree' = compute_degree(reduced_coeffs)
    /\ out' = Append(out, DegreeLine(degree'))
    /\ pc' = "dispatch"
    /\ UNCHANGED <<argc, input, equation, reduced_coeffs, raised, solver_calls,
                   exit_status>>

\* if degree > 2: print the can't-solve message
CantSolve ==
    /\ pc = "dispatch"
    /\ too_high(degree)
    /\ out' = Append(out, CantSolveLine)
    /\ pc' = "return"
    /\ UNCHANGED <<argc, input, equation, reduced_coeffs, degree, raised,
                   solver_calls, exit_status>>

\* else: solve_equation(reduced_coeffs, degree)
Solve ==
    /\ pc = "dispatch"
    /\ ~too_high(degree)
    /\ LET r == solve_equation(reduced_coeffs, degree)
       IN  /\ out' = out \o r.lines
           /\ raised' = r.raised
           /\ pc' = IF r.raised THEN "except" ELSE "return"
    /\ solver_calls' = solver_calls + 1
    /\ UNCHANGED <<argc, input, equation, reduced_coeffs, degree, exit_status>>

\* except Exception as e: print(f"Error: {e}")
Except ==
    /\ pc = "except"
    /\ out' = Append(out, ErrorLine)
    /\ pc' = "return"
    /\ UNCHANGED <<argc, input, equation, reduced_coeffs, degree, raised,
                   solver_calls, exit_status>>

\* main returns and the process ends with status 0
Exit ==
    /\ pc = "return"
    /\ exit_status' = 0
    /\ pc' = "exited"
    /\ UNCHANGED <<argc, input, equation, reduced_coeffs, degree, out, raised,
                   solver_calls>>

Next ==
    \/ Usage
    \/ Reduce
    \/ PrintReducedForm
    \/ PrintDegree
    \/ CantSolve
    \/ Solve
    \/ Except
    \/ Exit

Spec == Init /\ [][Next]_vars

(* ------------------------------------------------------------------ *)
(* What the input says, read off its items                            *)
(* ------------------------------------------------------------------ *)
EqCount(its) == Cardinality({i \in DOMAIN its : its[i].kind = "eq"})

\* the position of the k-th '=' of its; 0 for k = 0, Len(its) + 1 when
\* there is no k-th '='
EqPos(its, k) ==
    IF k = 0 THEN 0
    ELSE LET E == {i \in DOMAIN its : its[i].kind = "eq"
                      /\ Cardinality({j \in 1..i : its[j].kind = "eq"}) = k}
         IN  IF E = {} THEN Len(its) + 1 ELSE CHOOSE i \in E : TRUE

\* the positions of the items of the k-th side
SideItems(its, k) ==
    {i \in DOMAIN its : EqPos(its, k - 1) < i /\ i < EqPos(its, k)}

RECURSIVE SumOver(_, _, _)
SumOver(its, I, p) ==
    IF I = {} THEN 0
    ELSE LET i == CHOOSE x \in I : TRUE
         IN  (IF its[i].pw = p THEN its[i].sgn * its[i].mag ELSE 0)
               + SumOver(its, I \ {i}, p)

\* left side minus right side, power by power, as the input is written
Expected(its) ==
    LET L == SideItems(its, 1)
        R == SideItems(its, 2)
    IN  [p \in {its[i].pw : i \in L \cup R} |->
            SumOver(its, L, p) - SumOver(its, R, p)]

KindsIn(its, kinds) == \A i \in DOMAIN its : its[i].kind \in kinds

\* the powers whose coefficient is not negligible
Significant(coeffs) == {p \in DOMAIN coeffs : Abs(coeffs[p]) > EPS}

\* the highest of them, 0 when there is none
HighestSignificant(coeffs) ==
    IF Significant(coeffs) = {} THEN 0
    ELSE CHOOSE p \in Significant(coeffs) : \A q \in Significant(coeffs) : q <= p

Reduced == argc = 2 /\ pc \notin {"start", "except"} /\ ~raised

Finished == argc = 2 /\ pc = "exited"

(* ------------------------------------------------------------------ *)
(* Claims                                                             *)
(* ------------------------------------------------------------------ *)
\* C1: for an equation with exactly one '=' whose terms are all X^<digit>
\* or <number>*X^<digit> with an optional sign, the reducer does not fail
\* and returns the map that has, for exactly the powers written, the sum of
\* sign * coefficient over the left side minus that sum over the right side.
C1_Grammar == argc = 2 /\ EqCount(input) = 1 /\ KindsIn(input, {"term", "eq"})

C1_ReducerSignedSums ==
    C1_Grammar /\ pc # "start" => ~raised /\ reduced_coeffs = Expected(input)

\* a '-' term and a '+' term of one power on the left and a term of that
\* power on the right have been reduced
C1_Witness ==
    /\ C1_Grammar
    /\ pc = "print_form"
    /\ \E i, j \in SideItems(input, 1), k \in SideItems(input, 2) :
         /\ input[i].sgn = -1 /\ input[j].sgn = 1
         /\ input[i].pw = input[j].pw /\ input[k].pw = input[i].pw

\* C2 (as claimed): with degree 2 the heading printed is the one for two
\* real solutions exactly when D > 1e-6, the one for a repeated solution
\* exactly when |D| <= 1e-6, and the one for complex solutions exactly when
\* D < -1e-6.
C2_DiscriminantPartition ==
    Finished /\ solver_calls = 1 /\ degree = 2 =>
        LET d == Discriminant(reduced_coeffs)
        IN  /\ out[3] = PositiveLine <=> GtEps(d)
            /\ out[3] = ZeroLine <=> (~GtEps(d) /\ ~LtNegEps(d))
            /\ out[3] = NegativeLine <=> LtNegEps(d)

\* C3 (as claimed): an equation with a term whose power is no number ends
\* with an Error line only, and the solver is not called.
C3_NonNumericPowerFails ==
    /\ Finished
    /\ EqCount(input) = 1
    /\ KindsIn(input, {"term", "alpha", "eq"})
    /\ \E i \in SideItems(input, 1) \cup SideItems(input, 2) : input[i].kind = "alpha"
    => out = <<ErrorLine>> /\ solver_calls = 0

\* C4 (as claimed): an input with no '=' or with more than one '=' ends
\* with an Error line only: no reduced form, degree or solution is printed.
C4_ExactlyOneEquals ==
    Finished /\ EqCount(input) # 1 =>
        raised /\ out = <<ErrorLine>> /\ solver_calls = 0

\* C5: when the reduction succeeds the first line printed is the reduced
\* form, the second the degree, and the result follows; when the highest
\* power with a non-negligible coefficient is 3 or more the result is the
\* one can't-solve line and solve_equation is never called.
C5_OrderAndCantSolve ==
    Reduced =>
        /\ Len(out) >= 1 => out[1].tag = "Reduced form:"
        /\ Len(out) >= 2 => out[2].tag = "Polynomial degree:"
        /\ \A i \in 3..Len(out) :
             out[i].tag \notin {"Reduced form:", "Polynomial degree:", "Error:"}
        /\ pc \in {"return", "exited"} => Len(out) >= 3
        /\ HighestSignificant(reduced_coeffs) >= 3 =>
             /\ solver_calls = 0
             /\ pc \in {"return", "exited"} =>
                  Len(out) = 3 /\ out[3] = CantSolveLine

\* a run on an equation of degree 3 or more has ended
C5_Witness ==
    /\ Finished /\ ~raised
    /\ HighestSignificant(reduced_coeffs) >= 3
    /\ Len(out) = 3 /\ out[3] = CantSolveLine

\* C6: a failure while the coefficient map is built leaves nothing printed
\* but one Error line, and the process ends with status 0; an input with no
\* '=' or with a term that cannot be parsed on one of its two sides fails.
MustFail(its) ==
    \/ EqCount(its) = 0
    \/ \E i \in SideItems(its, 1) \cup SideItems(its, 2) : its[i].kind = "nostar"

C6_FailureIsOneErrorLine ==
    argc = 2 =>
        /\ raised => \/ pc = "except" /\ out = <<>>
                     \/ pc \in {"return", "exited"} /\ out = <<ErrorLine>>
        /\ ~raised => \A i \in DOMAIN out : out[i] # ErrorLine
        /\ MustFail(input) /\ pc # "start" => raised
        /\ pc = "exited" => exit_status = 0

\* a run has ended on an equation whose second term could not be parsed,
\* after a first term that could
C6_Witness ==
    /\ Finished /\ raised
    /\ EqCount(input) = 1
    /\ \E i, j \in SideItems(input, 1) :
         i < j /\ input[i].kind = "term" /\ input[j].kind = "nostar"
    /\ out = <<ErrorLine>>

\* the map the reducer returns for the reduced form that was printed
RoundTrip == get_reduced_form_coeffs(out[1].text)

FormPrinted == Reduced /\ Len(out) >= 1

MaxDiff(M, N, bound) ==
    \A p \in DOMAIN M \cup DOMAIN N : Abs(Get(M, p) - Get(N, p)) <= bound

\* C7 (as claimed): the reducer applied to the printed reduced form returns
\* a map whose coefficients differ from those of the map that was formatted
\* by at most 1e-6.
C7_RoundTripWithinEps ==
    FormPrinted => RoundTrip.ok /\ MaxDiff(reduced_coeffs, RoundTrip.coeffs, EPS)

\* half of a hundredth, the resolution of the two printed decimals
HalfCent == 5000

\* C7 (amended): the reducer applied to the printed reduced form succeeds
\* and returns a map whose coefficients differ from those of the map that
\* was formatted by at most 0.005.
C7_RoundTripWithinHalfCent ==
    FormPrinted => RoundTrip.ok /\ MaxDiff(reduced_coeffs, RoundTrip.coeffs, HalfCent)

\* a map with a negative coefficient and a coefficient that is no multiple
\* of 0.01 has been printed
C7_Witness ==
    /\ FormPrinted
    /\ \E p, q \in Significant(reduced_coeffs) :
         reduced_coeffs[p] < 0 /\ reduced_coeffs[q] % 10000 # 0

\* C8: the degree computed and printed is the highest power whose
\* coefficient exceeds 1e-6 in magnitude, 0 when there is none, and the
\* result printed is the one of that degree.
C8_DegreeIsHighestSignificant ==
    Reduced /\ pc \in {"dispatch", "return", "exited"} =>
        LET h == HighestSignificant(reduced_coeffs)
        IN  /\ degree = h
            /\ out[2] = DegreeLine(h)
            /\ pc \in {"return", "exited"} =>
                 /\ h >= 3 => out[3] = CantSolveLine
                 /\ h = 2 => out[3] \in {PositiveLine, ZeroLine, NegativeLine}
                 /\ h = 1 => out[3] = LinearLine
                 /\ h = 0 => out[3] \in {AnyLine, NoneLine}

\* a run has ended in which a power above the degree is in the map with a
\* cancelled coefficient, the degree being 1 or more
C8_Witness ==
    /\ Finished /\ ~raised
    /\ degree >= 1
    /\ \E p \in DOMAIN reduced_coeffs : p > degree /\ reduced_coeffs[p] = 0

\* C9 (as claimed): a term written with a power of several digits, at the
\* end of its side or followed by a signed term, contributes its coefficient
\* to the entry of that power, and the degree is the highest such power.
C9_MultiDigitPower ==
    /\ Finished
    /\ EqCount(input) = 1
    /\ KindsIn(input, {"term", "multi", "eq"})
    /\ \E i \in DOMAIN input : input[i].kind = "multi"
    /\ \A i \in DOMAIN input :
         input[i].kind = "multi" /\ i < Len(input) =>
            input[i + 1].txt[1] \in {"+", "-", "="}
    => /\ ~raised
       /\ reduced_coeffs = Expected(input)
       /\ degree = HighestSignificant(Expected(input))

\* C10 (as claimed): when the reduced form printed is the all-zero literal,
\* the solver line is "Any real number is a solution.".
C10_ZeroFormMeansAnySolution ==
    Finished /\ ~raised /\ out[1] = ReducedLine(ZeroForm) => out[3] = AnyLine

====
